---- MODULE Spec2Model ----
(***************************************************************************)
(* Supervisor engine of the multi-agent orchestration runtime:            *)
(*   - SupervisorService.run / run_stream (service.py)                    *)
(*   - supervisor_node, _plan_task, _route_decision (supervisor.py)       *)
(*   - build_graph / worker_node (workflow.py)                            *)
(*   - the standard worker responses (registry.py, worker.py,             *)
(*     subgraphs.py)                                                      *)
(*   - PerformanceLayer: rule engine and semantic cache                   *)
(*     (performance_layer/index.py)                                       *)
(* One request is in flight at a time; requests follow each other on the  *)
(* same service instance, so the semantic cache and the checkpointed      *)
(* message history of a thread are carried from one request to the next.  *)
(* The worker registry, the prompt manager, the direct calls of the       *)
(* performance layer, the user context built by the HTTP layer and the    *)
(* DataTeam subgraph each have a specification of their own over the same *)
(* variables.                                                             *)
(***************************************************************************)
EXTENDS Integers, Sequences, FiniteSets, TLC

\* ------------------------------------------------------------------ bounds
\* Number of requests served one after the other.
MaxRequests == 2
\* a follow-up request starts only while the checkpointer holds at most
\* MaxHistory messages
MaxHistory == 2
\* Longest plan the planning LLM is allowed to return in the model.
MaxPlanLen == 2
\* SupervisorConfig.max_iterations as configured for the model
\* (the default is MAX_ITERATIONS = 10).
max_iterations == 3
\* SupervisorConfig.max_task_steps as configured for the model
\* (the default is MAX_TASK_STEPS = 8).
max_task_steps == 1
\* Number of HTTP chat requests whose initial state is recorded.
MaxContexts == 2
\* Number of invocations of the DataTeam subgraph.
MaxInvocations == 2
\* Executions of GeneralWorker.execute, and GeneralWorker instances created.
MaxExecutes == 3
MaxInstances == 2
\* Threads that call WorkerRegistry.register at the same time.
MaxThreads == 3
\* Calls of register, unregister and clear made after startup.
MaxRegistryOps == 2

\* ------------------------------------------------------- program constants
\* SemanticCache.similarity_threshold (0.95), in percent.
similarity_threshold == 95
\* max_result_length of create_worker_response
max_result_length == 200
\* max_trials of check_execution
max_trials == 3
\* SemanticCache.enable_cache, with the store and the embedding model available
enable_cache == TRUE
\* SupervisorConfig.enable_planning
enable_planning == TRUE

\* --------------------------------------------------------------- the world
\* Workers that can be registered: two LLM workers and the subgraph worker.
LLMWorkers == {"General", "Researcher"}
SubgraphWorkers == {"DataTeam"}
WorkerNames == LLMWorkers \cup SubgraphWorkers

\* Registries the service is started with.
RegistryChoices ==
    { {}, {"General", "Researcher", "DataTeam"}, {"Researcher", "DataTeam"} }

\* Worker names the planning LLM may write into a step.
PlanNames == {"Researcher [llm_powered]", "DataTeam", "general"}

\* User messages: one matched by the greeting rule, an ordinary query, and the
\* empty message.
Queries == {"hello", "who is the president of France", ""}

Threads == {"t1", "t2"}

\* Worker.priority of the registered workers.
Priority(n) ==
    CASE n = "DataTeam" -> 15
      [] n = "Researcher" -> 10
      [] n = "General" -> 1
      [] OTHER -> 0

\* str.lower() on the names of the model.
Lower(n) ==
    CASE n = "General" -> "general"
      [] n = "Researcher" -> "researcher"
      [] n = "DataTeam" -> "datateam"
      [] n = "Researcher [llm_powered]" -> "researcher [llm_powered]"
      [] OTHER -> n

\* name.split("[")[0].strip() when the name holds a "[".
StripTag(n) == IF n = "Researcher [llm_powered]" THEN "Researcher" ELSE n

\* {**a, **b}
Overwrite(a, b) == b @@ a

EmptyDict == [k \in {} |-> ""]


None == "None"

Range(s) == {s[i] : i \in DOMAIN s}
Min(S) == CHOOSE x \in S : \A y \in S : x <= y

\* dict with one more key: {**m, k: v}
MetaPut(m, k, v) == (k :> v) @@ m

\* ---------------------------------------------------------------- messages
HumanMessage(content) == [type |-> "human", name |-> None, content |-> content]
AIMessage(content, name) == [type |-> "ai", name |-> name, content |-> content]

\* What a worker's LLM answers when it succeeds. Researcher's synthesis is a long
\* text (more than 200 characters), the others are short.
AnswerOf(w) ==
    CASE w = "General" -> "answer of General"
      [] w = "Researcher" -> "long answer of Researcher"
      [] w = "DataTeam" -> "report of DataTeam"
      [] OTHER -> "answer"

\* str(e) of the exception a worker's LLM call raises.
ErrorOf(w) ==
    CASE w = "General" -> "General: LLM call failed"
      [] w = "Researcher" -> "Researcher: LLM call failed"
      [] w = "DataTeam" -> "DataTeam: subgraph failed"
      [] OTHER -> "failed"

\* f"执行失败: {error_message}"
FailureContent(error_message) ==
    CASE error_message = "General: LLM call failed" -> "Execution failed: General: LLM call failed"
      [] error_message = "Researcher: LLM call failed" -> "Execution failed: Researcher: LLM call failed"
      [] error_message = "DataTeam: subgraph failed" -> "Execution failed: DataTeam: subgraph failed"
      [] OTHER -> "Execution failed"

\* content[:200] + "..." if len(content) > 200 else content
ResultSummary(content) ==
    IF content = "long answer of Researcher"
    THEN "long answer of Researcher[:200]..."
    ELSE content

\* len() of the model's texts: Researcher's synthesis has 201 characters, its
\* summary the first 200 of them and "...".
Chars(text) ==
    CASE text = "" -> 0
      [] text = "long answer of Researcher" -> max_result_length + 1
      [] text = "long answer of Researcher[:200]..." -> max_result_length + 3
      [] OTHER -> 20

\* -------------------------------------------------------------------- state
\* create_task_step (step_id and description carry no control flow)
create_task_step(worker) ==
    [worker |-> worker, status |-> "pending", result |-> None, error |-> None]

DEFAULT_STATE ==
    [messages |-> <<>>,
     next |-> "",
     task_plan |-> <<>>,
     current_step_index |-> 0,
     original_query |-> "",
     current_worker |-> None,
     iteration_count |-> 0,
     thinking_steps |-> <<>>,
     metadata |-> EmptyDict]

\* The graph's reducer: messages are appended (add_messages), every other key
\* of the update overwrites the stored value, absent keys are kept.
ApplyUpdate(st, upd) ==
    [k \in DOMAIN st |->
        IF k \in DOMAIN upd
        THEN IF k = "messages" THEN st.messages \o upd.messages ELSE upd[k]
        ELSE st[k]]

\* ----------------------------------------------------------------- registry
\* WorkerRegistry.get_names: names sorted by priority, highest first.
get_names(reg) ==
    CHOOSE s \in [1..Cardinality(reg) -> reg] :
        \A i, j \in 1..Cardinality(reg) : i < j => Priority(s[i]) > Priority(s[j])


\* WorkerRegistry._workers is a dict: the registered worker objects in the order
\* their names were first inserted. A worker object is its name and the
\* identity of the instance.
WorkerObjects == {[name |-> n, id |-> i] : n \in WorkerNames, i \in {"first", "second"}}
Names(ws) == {ws[i].name : i \in DOMAIN ws}

\* register_all_workers: the default workers, then the subgraph worker.
StartupOrder == <<"Researcher", "General", "DataTeam">>
StartupWorkers(names) ==
    LET kept == SelectSeq(StartupOrder, LAMBDA n : n \in names)
    IN  [i \in DOMAIN kept |-> [name |-> kept[i], id |-> "first"]]

\* Variant of register that assigns whether or not the name is registered.
register_overwrites(ws, worker, replace) ==
    IF worker.name \in Names(ws)
    THEN [i \in DOMAIN ws |-> IF ws[i].name = worker.name THEN worker ELSE ws[i]]
    ELSE Append(ws, worker)

\* WorkerRegistry.register
register(ws, worker, replace) ==
    IF worker.name \in Names(ws) /\ ~replace THEN ws
    ELSE IF worker.name \in Names(ws)
    THEN [i \in DOMAIN ws |-> IF ws[i].name = worker.name THEN worker ELSE ws[i]]
    ELSE Append(ws, worker)

\* WorkerRegistry.unregister
unregister(ws, name) == SelectSeq(ws, LAMBDA w : w.name # name)

\* WorkerRegistry.clear
clear(ws) == <<>>

\* WorkerRegistry.get
registry_get(ws, name) ==
    IF name \in Names(ws)
    THEN ws[CHOOSE i \in DOMAIN ws : ws[i].name = name]
    ELSE None

\* --------------------------------------------------------------- supervisor
\* What the planning LLM can do: return a TaskPlan with these steps' workers,
\* fail inside the planning chain (an exception, or a result that is no
\* TaskPlan), or be unavailable (the LLM cannot be created, which raises before
\* the chain's try block).
PlanSeqs == UNION {[1..n -> PlanNames] : n \in 1..MaxPlanLen}
PlannerOutputs ==
    {[kind |-> "plan", steps |-> s] : s \in PlanSeqs}
    \cup {[kind |-> "failed", steps |-> <<>>], [kind |-> "llm_unavailable", steps |-> <<>>]}
NoPlannerCall == [kind |-> "not_called", steps |-> <<>>]

\* What the routing LLM can do: return a RouteDecision (next, the registered
\* names its reasoning mentions, should_replan), or no decision (an exception,
\* or a result that is no RouteDecision).
RouterOutputs ==
    {[kind |-> "decision", next |-> n, mentions |-> m, should_replan |-> b] :
        n \in {"FINISH", "General", "Researcher", "Bogus"},
        m \in {{}, {"Researcher"}},
        b \in BOOLEAN}
    \cup {[kind |-> "no_decision", next |-> "", mentions |-> {}, should_replan |-> FALSE]}
NoRouterCall == [kind |-> "not_called", next |-> "", mentions |-> {}, should_replan |-> FALSE]

\* _plan_task, for a planner that could be created
plan_task(st, p) ==
    IF p.kind = "plan"
    THEN [task_plan |-> [i \in DOMAIN p.steps |-> create_task_step(StripTag(p.steps[i]))],
          current_step_index |-> 0,
          original_query |-> IF st.messages # <<>> THEN st.messages[1].content ELSE "",
          thinking_steps |-> Append(st.thinking_steps, "planning")]
    ELSE [task_plan |-> <<create_task_step("General")>>,
          current_step_index |-> 0]

\* status in [COMPLETED, SKIPPED, FAILED]
IsTerminal(step) == step.status \in {"completed", "skipped", "failed"}

\* sum(1 for step in task_plan if status in [COMPLETED, SKIPPED])
completed_steps(plan) ==
    Cardinality({i \in DOMAIN plan : plan[i].status \in {"completed", "skipped"}})

\* any(msg.name in registry.get_names() for msg in messages if msg.content)
has_ai_response(msgs, names) ==
    \E i \in DOMAIN msgs : msgs[i].content # "" /\ msgs[i].name \in names

\* Fast path 1: every step is completed or skipped.
FastPathAllDone(st) ==
    completed_steps(st.task_plan) >= Len(st.task_plan) /\ Len(st.task_plan) > 0

\* Fast path 2: a single-step plan, not completed, and a worker has replied.
FastPathSingleStep(st, names) ==
    /\ Len(st.task_plan) = 1
    /\ completed_steps(st.task_plan) = 0
    /\ has_ai_response(st.messages, names)

\* Fast path 3, one step: the registered worker a planned name stands for
\* (exact match, case-insensitive match, General as the stand-in), or None.
ResolvePlanned(worker, names) ==
    LET next_worker == StripTag(worker) IN
    IF next_worker \in names THEN next_worker
    ELSE IF \E n \in names : Lower(n) = Lower(next_worker)
         THEN CHOOSE n \in names : Lower(n) = Lower(next_worker)
    ELSE IF "General" \in names THEN "General"
    ELSE None

\* Fast path 3: the steps at which the loop over the plan can return.
FastPathSteps(plan, names) ==
    {i \in DOMAIN plan : ~IsTerminal(plan[i]) /\ ResolvePlanned(plan[i].worker, names) # None}

\* The routing LLM is called only when no fast path returns.
UsesRoutingLLM(st, names) ==
    /\ ~FastPathAllDone(st)
    /\ ~FastPathSingleStep(st, names)
    /\ FastPathSteps(st.task_plan, names) = {}

\* Validation of the routing LLM's next: an invalid option is replaced by the
\* first registered worker the reasoning mentions, else by the first unfinished
\* step's planned worker when it is registered, else by FINISH.
ValidatedNext(plan, names_seq, r) ==
    LET names == Range(names_seq)
        mentioned == SelectSeq(names_seq, LAMBDA n : n \in r.mentions)
        planned == {i \in DOMAIN plan : ~IsTerminal(plan[i]) /\ StripTag(plan[i].worker) \in names}
    IN  IF r.next \in ({"FINISH"} \cup names) THEN r.next
        ELSE IF mentioned # <<>> THEN Head(mentioned)
        ELSE IF planned # {} THEN StripTag(plan[Min(planned)].worker)
        ELSE "FINISH"

\* The check after validation: FINISH with completed < total is replaced by the
\* first unfinished step's worker that is registered (exact or case-insensitive),
\* and by General when the loop finds none.
ForcedNext(plan, names_seq, next_action) ==
    LET names == Range(names_seq)
        matching == {i \in DOMAIN plan :
                        /\ ~IsTerminal(plan[i])
                        /\ \E n \in names : Lower(n) = Lower(StripTag(plan[i].worker))}
    IN  IF next_action = "FINISH" /\ completed_steps(plan) < Len(plan)
        THEN IF matching # {}
             THEN LET planned_worker == StripTag(plan[Min(matching)].worker) IN
                  IF planned_worker \in names THEN planned_worker
                  ELSE Head(SelectSeq(names_seq, LAMBDA n : Lower(n) = Lower(planned_worker)))
             ELSE IF "General" \in names THEN "General" ELSE "FINISH"
        ELSE next_action

\* Variant of the routing LLM's update whose should_replan branch keeps the plan.
llm_route_keep_plan(st, names_seq, r) ==
    IF r.kind = "decision"
    THEN IF r.should_replan
         THEN [thinking_steps |-> Append(st.thinking_steps, "decision")]
         ELSE [next |-> ForcedNext(st.task_plan, names_seq,
                                   ValidatedNext(st.task_plan, names_seq, r)),
               thinking_steps |-> Append(st.thinking_steps, "decision")]
    ELSE [next |-> "FINISH"]

\* The update built from the routing LLM's result.
llm_route(st, names_seq, r) ==
    IF r.kind = "decision"
    THEN IF r.should_replan
         THEN [task_plan |-> <<>>,
               thinking_steps |-> Append(st.thinking_steps, "decision")]
         ELSE [next |-> ForcedNext(st.task_plan, names_seq,
                                   ValidatedNext(st.task_plan, names_seq, r)),
               thinking_steps |-> Append(st.thinking_steps, "decision")]
    ELSE [next |-> "FINISH"]

\* Variant of _route_decision without the single-step fast path.
route_decision_no_single_step(st, names_seq, r) ==
    LET names == Range(names_seq) IN
    IF FastPathAllDone(st)
    THEN [next |-> "FINISH", thinking_steps |-> Append(st.thinking_steps, "decision")]
    ELSE IF FastPathSteps(st.task_plan, names) # {}
    THEN [next |-> ResolvePlanned(st.task_plan[Min(FastPathSteps(st.task_plan, names))].worker, names),
          thinking_steps |-> Append(st.thinking_steps, "decision")]
    ELSE llm_route(st, names_seq, r)

\* _route_decision
route_decision(st, names_seq, r) ==
    LET names == Range(names_seq) IN
    IF FastPathAllDone(st) \/ FastPathSingleStep(st, names)
    THEN [next |-> "FINISH", thinking_steps |-> Append(st.thinking_steps, "decision")]
    ELSE IF FastPathSteps(st.task_plan, names) # {}
    THEN [next |-> ResolvePlanned(st.task_plan[Min(FastPathSteps(st.task_plan, names))].worker, names),
          thinking_steps |-> Append(st.thinking_steps, "decision")]
    ELSE llm_route(st, names_seq, r)

\* Variant of the iteration guard that lets one more entry through.
IterationGuard_strict(st) == st.iteration_count > max_iterations

\* The iteration guard of supervisor_node.
IterationGuard(st) == st.iteration_count >= max_iterations

\* The plan phase runs when planning is enabled and the plan is empty.
NeedsPlan(st) == enable_planning /\ st.task_plan = <<>>

\* Variant of supervisor_node without the check for an empty registry.
supervisor_node_unchecked(st, reg, p, r) ==
    IF IterationGuard(st)
    THEN [next |-> "FINISH",
          iteration_count |-> st.iteration_count,
          metadata |-> MetaPut(st.metadata, "terminated_reason", "max_iterations_reached")]
    ELSE LET planning_result == IF NeedsPlan(st) THEN plan_task(st, p) ELSE EmptyDict
             planned_state == Overwrite(st, planning_result)
             routing_result == route_decision(planned_state, get_names(reg), r)
         IN  Overwrite(Overwrite(planning_result, routing_result),
                       [iteration_count |-> st.iteration_count + 1])

\* supervisor_node: the partial update it returns.
supervisor_node(st, reg, p, r) ==
    IF IterationGuard(st)
    THEN [next |-> "FINISH",
          iteration_count |-> st.iteration_count,
          metadata |-> MetaPut(st.metadata, "terminated_reason", "max_iterations_reached")]
    ELSE IF reg = {}
    THEN [next |-> "FINISH", iteration_count |-> st.iteration_count + 1]
    ELSE IF NeedsPlan(st) /\ p.kind = "llm_unavailable"
    THEN [next |-> "FINISH",
          iteration_count |-> st.iteration_count + 1,
          metadata |-> MetaPut(MetaPut(st.metadata, "error", "LLM unavailable"),
                               "error_type", "supervisor_decision_error")]
    ELSE LET planning_result == IF NeedsPlan(st) THEN plan_task(st, p) ELSE EmptyDict
             planned_state == Overwrite(st, planning_result)
             routing_result == route_decision(planned_state, get_names(reg), r)
         IN  Overwrite(Overwrite(planning_result, routing_result),
                       [iteration_count |-> st.iteration_count + 1])

\* build_graph.route_decision: the conditional edge out of the supervisor.
graph_route(st, workers) ==
    IF st.next # "FINISH" /\ st.next \notin workers THEN "FINISH" ELSE st.next


\* ------------------------------------------------------------------ workers
\* BaseWorkerMixin.get_original_query: the stored original query, else the
\* content of the first user message (None without one).
get_original_query(st) ==
    LET humans == SelectSeq(st.messages, LAMBDA m : m.type = "human") IN
    IF st.original_query # "" THEN st.original_query
    ELSE IF humans # <<>> THEN Head(humans).content
    ELSE None

\* BaseWorkerMixin.get_last_user_query, for a history holding a user message
get_last_user_query(msgs) ==
    LET humans == SelectSeq(msgs, LAMBDA m : m.type = "human") IN
    IF msgs = <<>> THEN None
    ELSE IF humans # <<>> THEN humans[Len(humans)].content
    ELSE msgs[Len(msgs)].content

\* BaseWorker.get_query: get_original_query(state) or get_last_user_query(messages)
get_query(st) ==
    IF get_original_query(st) \notin {"", None}
    THEN get_original_query(st)
    ELSE get_last_user_query(st.messages)

\* BaseWorkerMixin.create_worker_response
create_worker_response(worker_name, content, st, has_thinking_step) ==
    LET result == [messages |-> <<AIMessage(content, worker_name)>>,
                   current_worker |-> worker_name]
        with_thinking ==
            IF has_thinking_step
            THEN Overwrite(result, [thinking_steps |-> Append(st.thinking_steps, "reasoning")])
            ELSE result
        task_plan == st.task_plan
        current_index == st.current_step_index
    IN  IF task_plan # <<>> /\ 0 <= current_index /\ current_index < Len(task_plan)
        THEN Overwrite(with_thinking,
                [task_plan |-> [task_plan EXCEPT
                                  ![current_index + 1].status = "completed",
                                  ![current_index + 1].result = ResultSummary(content)],
                 current_step_index |-> current_index + 1])
        ELSE with_thinking

\* BaseWorkerMixin.create_error_response
create_error_response(worker_name, error_message, st) ==
    LET result == [messages |-> <<AIMessage(FailureContent(error_message), worker_name)>>,
                   current_worker |-> worker_name,
                   metadata |-> MetaPut(MetaPut(st.metadata, "error", error_message),
                                        "error_type", "execution_error")]
        task_plan == st.task_plan
        current_index == st.current_step_index
    IN  IF task_plan # <<>> /\ 0 <= current_index /\ current_index < Len(task_plan)
        THEN Overwrite(result,
                [task_plan |-> [task_plan EXCEPT
                                  ![current_index + 1].status = "failed",
                                  ![current_index + 1].error = error_message]])
        ELSE result

\* DataTeamWorker.process_subgraph_output. The subgraph's result is the update
\* of its last node (analyze_data or give_up), which holds messages only.
process_subgraph_output(worker_name, result, st) ==
    LET messages == IF "messages" \in DOMAIN result /\ result.messages # <<>>
                    THEN result.messages
                    ELSE <<AIMessage("no report", worker_name)>>
        output == [messages |-> messages, current_worker |-> worker_name]
        task_plan == st.task_plan
        current_index == st.current_step_index
        content == messages[Len(messages)].content
    IN  IF 0 <= current_index /\ current_index < Len(task_plan)
        THEN Overwrite(output,
                [task_plan |->
                    IF "error" \in DOMAIN result /\ result.error \notin {"", None}
                    THEN [task_plan EXCEPT ![current_index + 1].status = "failed",
                                           ![current_index + 1].error = result.error]
                    ELSE [task_plan EXCEPT ![current_index + 1].status = "completed",
                                           ![current_index + 1].result = ResultSummary(content)],
                 current_step_index |-> current_index + 1])
        ELSE output

\* DataTeamWorker.process_subgraph_output writes the step's status, error and
\* result into the step dicts of parent_state itself (the plan is not copied):
\* the parent state as the caller holds it after the call.
process_subgraph_output_parent(worker_name, result, st) ==
    LET output == process_subgraph_output(worker_name, result, st)
    IN  IF "task_plan" \in DOMAIN output
        THEN [st EXCEPT !.task_plan = output.task_plan]
        ELSE st

\* What one execution of a worker can meet.
\*   LLM workers: the LLM answers ("ok"), answers with empty content ("empty"),
\*     or the call raises inside the worker's try block ("error").
\*   Subgraph worker: the subgraph produces its report ("ok"), or running it
\*     raises ("exception").
Outcomes(w) ==
    IF w \in SubgraphWorkers THEN {"ok", "exception"}
    ELSE {"ok", "empty", "error"}

\* An LLM worker with no query calls self._create_response, which no class
\* defines: the AttributeError is raised before the worker's try block.
ExecuteRaises(w, st) == w \in LLMWorkers /\ get_query(st) \in {"", None}

\* SubgraphWorker.execute
subgraph_execute(w, st, outcome) ==
    IF outcome = "exception"
    THEN [messages |-> <<AIMessage(FailureContent(ErrorOf(w)), w)>>,
          current_worker |-> w,
          metadata |-> MetaPut(MetaPut(st.metadata, "error", ErrorOf(w)),
                               "error_type", "subgraph_execution_error")]
    ELSE process_subgraph_output(w,
            [messages |-> <<AIMessage(AnswerOf(w), "DataTeam")>>],
            st)

\* ResearcherWorker.execute / GeneralWorker.execute with a query
llm_execute(w, st, outcome) ==
    IF outcome = "error"
    THEN create_error_response(w, ErrorOf(w), st)
    ELSE create_worker_response(w, IF outcome = "empty" THEN "" ELSE AnswerOf(w),
                                st, w = "Researcher")

\* build_worker_node.worker_node: the partial update the node returns.
worker_node(worker_name, st, reg, outcome) ==
    IF worker_name \notin reg
    THEN [messages |-> <<>>,
          current_worker |-> worker_name,
          metadata |-> MetaPut(MetaPut(st.metadata, "error", "worker not found"),
                               "error_type", "worker_not_found")]
    ELSE IF ExecuteRaises(worker_name, st)
    THEN [messages |-> <<>>,
          current_worker |-> worker_name,
          metadata |-> MetaPut(MetaPut(st.metadata, "error", "AttributeError"),
                               "error_type", "worker_execution_error")]
    ELSE IF worker_name \in SubgraphWorkers
    THEN subgraph_execute(worker_name, st, outcome)
    ELSE llm_execute(worker_name, st, outcome)

\* -------------------------------------------------------- performance layer
\* RuleEngine.match on the model's queries: "hello" matches the greeting rule.
rule_match(query) ==
    IF query = "hello"
    THEN [hit |-> TRUE, answer |-> "canned greeting", source |-> "rule_engine"]
    ELSE [hit |-> FALSE]

\* Cosine similarity of the embeddings of two queries, in percent.
Similarity(a, b) ==
    IF a = b THEN 100
    ELSE 40

\* SemanticCache.get: the entry of the most similar cached query, when its
\* similarity reaches the threshold. The cache maps a query to its answer.
cache_get(c, enabled, query) ==
    LET best == CHOOSE k \in DOMAIN c : \A o \in DOMAIN c : Similarity(query, k) >= Similarity(query, o)
    IN  IF ~enabled \/ DOMAIN c = {} THEN [hit |-> FALSE]
        ELSE IF Similarity(query, best) >= similarity_threshold
        THEN [hit |-> TRUE, answer |-> c[best], source |-> "semantic_cache"]
        ELSE [hit |-> FALSE]

\* SemanticCache.set
cache_set(c, enabled, query, answer) ==
    IF enabled THEN (query :> answer) @@ c ELSE c

\* PerformanceLayer.process_query: the rule engine first, then the cache.
process_query(c, enabled, query) ==
    IF rule_match(query).hit THEN rule_match(query)
    ELSE cache_get(c, enabled, query)


\* The Redis store of the semantic cache: the queries that have a vector key,
\* and the answer of those that have a data key. md5(query) names the keys; it
\* is kept as the query (distinct queries have distinct keys).
EmptyStore == [vectors |-> {}, data |-> EmptyDict]

\* Where a cache read can fail: the embedder (encode raises), redis.keys, the
\* read of one stored vector, the read or the decoding of the matched entry.
ReadFaults ==
    {[kind |-> k, key |-> ""] : k \in {"none", "embedder", "keys", "data"}}
    \cup {[kind |-> "vector", key |-> q] : q \in Queries}
NoFault == [kind |-> "none", key |-> ""]

\* Where a cache write can fail: the embedder, the first redis.set (vector),
\* the second redis.set (data).
WriteFaults == {"none", "embedder", "vector_set", "data_set"}

\* Variant of SemanticCache.get without its outer try/except: a failure of
\* redis.keys leaves the method as an exception.
SemanticCache_get_unguarded(store, enabled, query, fault) ==
    LET readable == store.vectors \ (IF fault.kind = "vector" THEN {fault.key} ELSE {})
        best_match == CHOOSE k \in readable :
                         \A o \in readable : Similarity(query, k) >= Similarity(query, o)
    IN  IF ~enabled THEN [hit |-> FALSE]
        ELSE IF fault.kind = "embedder" THEN [hit |-> FALSE]
        ELSE IF fault.kind = "keys" THEN [hit |-> FALSE, raised |-> TRUE]
        ELSE IF readable = {} THEN [hit |-> FALSE]
        ELSE IF Similarity(query, best_match) >= similarity_threshold
                /\ fault.kind # "data" /\ best_match \in DOMAIN store.data
        THEN [hit |-> TRUE, answer |-> store.data[best_match],
              source |-> "semantic_cache"]
        ELSE [hit |-> FALSE]

\* SemanticCache.get with the failures of the store and of the embedder.
SemanticCache_get(store, enabled, query, fault) ==
    LET readable == store.vectors \ (IF fault.kind = "vector" THEN {fault.key} ELSE {})
        best_match == CHOOSE k \in readable :
                         \A o \in readable : Similarity(query, k) >= Similarity(query, o)
    IN  IF ~enabled THEN [hit |-> FALSE]
        ELSE IF fault.kind \in {"embedder", "keys"} THEN [hit |-> FALSE]
        ELSE IF readable = {} THEN [hit |-> FALSE]
        ELSE IF Similarity(query, best_match) >= similarity_threshold
        THEN IF fault.kind = "data" THEN [hit |-> FALSE]
             ELSE IF best_match \in DOMAIN store.data
             THEN [hit |-> TRUE, answer |-> store.data[best_match],
                   source |-> "semantic_cache"]
             ELSE [hit |-> FALSE]
        ELSE [hit |-> FALSE]

\* SemanticCache.set with the failures of the store and of the embedder: the
\* store it leaves behind.
SemanticCache_set(store, enabled, query, answer, fault) ==
    IF ~enabled \/ fault \in {"embedder", "vector_set"} THEN store
    ELSE IF fault = "data_set"
    THEN [store EXCEPT !.vectors = @ \cup {query}]
    ELSE [vectors |-> store.vectors \cup {query},
          data |-> (query :> answer) @@ store.data]

\* Variant of process_query that asks the semantic cache first.
PerformanceLayer_process_query_cache_first(store, enabled, query, fault) ==
    IF SemanticCache_get(store, enabled, query, fault).hit
    THEN SemanticCache_get(store, enabled, query, fault)
    ELSE rule_match(query)

\* PerformanceLayer.process_query over the Redis store.
PerformanceLayer_process_query(store, enabled, query, fault) ==
    IF rule_match(query).hit THEN rule_match(query)
    ELSE SemanticCache_get(store, enabled, query, fault)

\* PerformanceLayer.cache_answer over the Redis store.
PerformanceLayer_cache_answer(store, enabled, query, answer, fault) ==
    SemanticCache_set(store, enabled, query, answer, fault)

\* ------------------------------------------------------------ prompt manager
\* The configuration the PromptManager loads: one folder of FOLDER_MAPPINGS and
\* one file of FILE_MAPPINGS, each in one of two versions on disk. The tree
\* (PromptManager._cache) maps the prefixes loaded so far to their version.
PromptPrefixes == {"supervisor", "common"}
PromptVersions == {"v1", "v2"}
\* _load goes through FOLDER_MAPPINGS, then through FILE_MAPPINGS.
LoadOrder == <<"supervisor", "common">>
\* Paths asked for: a prompt of the folder, which refers to @common.constraints,
\* and that prompt of the file.
PromptKeys == {"supervisor.planning.system", "common.constraints"}
EmptyTree == [k \in {} |-> "v1"]

\* A text is the path it was read from and the version of its file; the
\* default of get is the empty string.
NoText == [found |-> FALSE]
DefaultPrompt == [default |-> ""]

\* PromptManager._get_raw: the text stored under the path, None without it.
get_raw(tree, key) ==
    LET prefix == IF key = "common.constraints" THEN "common" ELSE "supervisor"
    IN  IF prefix \in DOMAIN tree
        THEN [found |-> TRUE, path |-> key, version |-> tree[prefix]]
        ELSE NoText

\* PromptManager._resolve_references on the one reference of the model: the
\* text referred to, or the reference kept as it stands.
resolve_references(tree, ref) ==
    IF get_raw(tree, ref).found THEN get_raw(tree, ref) ELSE [found |-> FALSE, kept |-> ref]

\* PromptManager.get without format arguments: the default for a path the
\* tree does not hold, else the text with its reference resolved.
prompt_get(tree, key, default) ==
    IF ~get_raw(tree, key).found THEN default
    ELSE IF key = "supervisor.planning.system"
    THEN [text |-> get_raw(tree, key),
          ref |-> resolve_references(tree, "common.constraints")]
    ELSE [text |-> get_raw(tree, key)]

\* ------------------------------------------------------------------ service
\* StreamEvent.to_dict: content and progress are present only when truthy.
\* progress is << >> for None and <<[current, total]>> otherwise.
to_dict(type, content, progress) ==
    (IF progress # <<>> THEN ("progress" :> progress[1]) ELSE EmptyDict)
    @@ (IF content # "" THEN ("content" :> content) ELSE EmptyDict)
    @@ ("type" :> type)

\* ---------------------------------------------------------- General worker
\* Requests that may run GeneralWorker.execute at the same time.
Callers == {"r1", "r2"}

\* What the attempt with tools (_execute_with_tools) can meet: the model
\* answers, the model rejects tools ("does not support tools"), or the call
\* fails for another reason.
ToolOutcomes == {"answered", "unsupported", "failed"}

\* Variant of the bit's update that stores whether the last attempt was accepted.
tools_supported_after_last(bit, outcome) == outcome # "unsupported"

\* GeneralWorker.execute: _tools_supported after the attempt returned
tools_supported_after(bit, outcome) == IF outcome = "unsupported" THEN FALSE ELSE bit

\* GeneralWorker.execute: the path an execute that attempted tools ends on
tools_path(outcome) ==
    CASE outcome = "answered" -> "tools"
      [] outcome = "unsupported" -> "fallback_after_rejection"
      [] outcome = "failed" -> "error"

\* ------------------------------------------------- threads in the registry
\* The threads that register, each with a worker instance of its own (the
\* instance is named after its thread), and the names they register under.
RegisterThreads == 1..MaxThreads
RegisterNames == {"General", "Researcher"}

\* WorkerRegistry.register: the test `worker.name in self._workers and not replace`
\* lets the call go on to the store.
register_passes(workers, name, replace) == ~(workers[name] # 0 /\ ~replace)

\* ------------------------------------------------------- DataTeam subgraph
\* SQL texts the generator's LLM writes, and str(e) of what db.run raises.
SqlTexts == {"SELECT COUNT(*) FROM orders", "SELECT * FROM ordrs"}
DbErrors == {"no such table: ordrs", "database is locked"}

\* DataTeamWorker.prepare_subgraph_input
prepare_subgraph_input(question) ==
    [messages |-> <<>>,
     question |-> question,
     sql_query |-> "",
     query_result |-> "",
     error |-> None,
     trials |-> 0,
     schema |-> ""]

\* The subgraph's reducer: messages are added (operator.add), every other key
\* of the update overwrites.
ApplyDataUpdate(st, upd) ==
    [k \in DOMAIN st |->
        IF k \in DOMAIN upd
        THEN IF k = "messages" THEN st.messages \o upd.messages ELSE upd[k]
        ELSE st[k]]

\* generate_sql_node, for an LLM that answered with sql
generate_sql_node(st, sql) ==
    [sql_query |-> sql,
     trials |-> st.trials + 1,
     error |-> None,
     schema |-> "schema"]

\* execute_sql_node: db.run returns a result ("ok") or raises with text e
execute_sql_node(st, e) ==
    IF e = "ok"
    THEN [query_result |-> "rows", error |-> None]
    ELSE [query_result |-> "", error |-> e]

\* analyze_result_node
analyze_result_node(st) == [messages |-> <<AIMessage(AnswerOf("DataTeam"), "DataTeam")>>]

\* give_up_node
give_up_node(st) == [messages |-> <<AIMessage("data query failed", "DataTeam")>>]

\* Variant of check_execution that gives up only past max_trials.
check_execution_past(st) ==
    IF st.error \notin {None, ""}
    THEN IF st.trials > max_trials THEN "give_up" ELSE "retry"
    ELSE "success"

\* check_execution
check_execution(st) ==
    IF st.error \notin {None, ""}
    THEN IF st.trials >= max_trials THEN "give_up" ELSE "retry"
    ELSE "success"

\* Variant of the conditional edge that sends a success to give_up.
edge_target_no_analysis(route) ==
    CASE route = "retry" -> "generate_sql"
      [] route = "success" -> "give_up"
      [] route = "give_up" -> "give_up"

\* build_data_subgraph: the conditional edge out of execute_sql
edge_target(route) ==
    CASE route = "retry" -> "generate_sql"
      [] route = "success" -> "analyze_data"
      [] route = "give_up" -> "give_up"

\* ------------------------------------------------------------ user context
\* Bearer tokens the auth middleware accepts; NoToken stands for a request
\* whose request.state has no auth_token attribute (auth not required or
\* path skipped).
AuthTokens == {"token-a", "token-b"}
NoToken == "absent"

\* A reference to the one dict object created with DEFAULT_USER_CONTEXT.
SharedPreferences == [object |-> "DEFAULT_USER_CONTEXT.preferences"]

\* DEFAULT_USER_CONTEXT (permissions is never written)
DEFAULT_USER_CONTEXT ==
    [user_id |-> None,
     session_id |-> None,
     language |-> "zh-CN",
     timezone |-> "Asia/Shanghai",
     permissions |-> <<>>,
     preferences |-> SharedPreferences]

\* get_user_context_dep: the context it returns and the content of the
\* preferences object after it ran. {**DEFAULT_USER_CONTEXT, ...} copies the
\* reference, so the assignment goes to the shared object.
get_user_context_dep(trace_id, auth_token, preferences) ==
    LET context == Overwrite(DEFAULT_USER_CONTEXT, [session_id |-> trace_id])
    IN  [context |-> context,
         preferences |-> IF auth_token # NoToken
                         THEN Overwrite(preferences, [auth_token |-> auth_token])
                         ELSE preferences]

\* api._build_user_context (the request sets no user_id, language "zh-CN")
build_user_context(request_thread_id, base) ==
    Overwrite(base, [user_id |-> base.user_id,
                     session_id |-> request_thread_id,
                     language |-> "zh-CN"])

\* SupervisorService._build_initial_state, the user_context it stores
initial_user_context(user_context) ==
    Overwrite(Overwrite(DEFAULT_USER_CONTEXT, EmptyDict), user_context)

\* SupervisorService._build_initial_state
build_initial_state(user_message) ==
    Overwrite(DEFAULT_STATE,
              [messages |-> <<HumanMessage(user_message)>>,
               original_query |-> user_message,
               metadata |-> EmptyDict])

\* Variant of _parse_node_output that reads the plan of the previous state only.
parse_node_output_prev_plan(name, output, prev) ==
    LET task_plan == prev.task_plan
        progress == IF task_plan # <<>> /\ Len(task_plan) > 1
                    THEN <<[current |-> completed_steps(task_plan), total |-> Len(task_plan)]>>
                    ELSE <<>>
    IN  IF "messages" \in DOMAIN output /\ name # "supervisor"
        THEN IF output.messages # <<>>
             THEN <<to_dict("answer", output.messages[Len(output.messages)].content, progress)>>
             ELSE <<>>
        ELSE IF name = "supervisor" /\ progress # <<>> /\ progress[1].current > 0
        THEN <<to_dict("progress", "", progress)>>
        ELSE <<>>

\* SupervisorService._parse_node_output, each event already through to_dict
parse_node_output(name, output, prev) ==
    LET task_plan == IF "task_plan" \in DOMAIN output THEN output.task_plan ELSE prev.task_plan
        progress == IF task_plan # <<>> /\ Len(task_plan) > 1
                    THEN <<[current |-> completed_steps(task_plan), total |-> Len(task_plan)]>>
                    ELSE <<>>
    IN  IF "messages" \in DOMAIN output /\ name # "supervisor"
        THEN IF output.messages # <<>>
             THEN <<to_dict("answer", output.messages[Len(output.messages)].content, progress)>>
             ELSE <<>>
        ELSE IF name = "supervisor" /\ progress # <<>> /\ progress[1].current > 0
        THEN <<to_dict("progress", "", progress)>>
        ELSE <<>>

\* run_stream's final_answer after one more update
next_final_answer(final, output) ==
    IF "messages" \in DOMAIN output /\ output.messages # <<>>
    THEN output.messages[Len(output.messages)].content
    ELSE final

\* The content of the worker message that ends the conversation state, "" when
\* the request produced none.
FinalAnswerOf(st) ==
    IF st.messages # <<>> /\ st.messages[Len(st.messages)].type = "ai"
    THEN st.messages[Len(st.messages)].content
    ELSE ""

\* ------------------------------------------------------------ state machine
VARIABLES
    registry,       \* WorkerRegistry._workers: names of the registered workers
    cache,          \* SemanticCache store: cached query -> answer
    checkpoint,     \* MemorySaver: thread_id -> messages of the thread
    answered,       \* history: query -> final answer of its last completed graph request
    n_requests,     \* requests started so far
    pc,             \* "idle", "supervisor", "worker", "end", "done"
    mode,           \* "stream" (run_stream) or "run" (run)
    user_message,   \* argument of the request in flight
    thread_id,      \* argument of the request in flight
    cache_result,   \* result of performance_layer.process_query
    state,          \* graph state of the request in flight
    prev_state,     \* run_stream's prev_state
    node_name,      \* node whose update was streamed last
    node_output,    \* that update (run's final_state)
    final_answer,   \* run_stream's final_answer
    events,         \* events yielded by run_stream so far
    result,         \* value returned by run
    dispatched,     \* history: workers executed by the graph in this request
    routing_llm,    \* history: the routing LLM path was taken in this request
    registry_seen,  \* history: the registries the nodes of this request read
    workers,        \* WorkerRegistry._workers: the worker objects, in dict order
    graph_workers,  \* names of the worker nodes of the compiled graph
    reg_op,         \* last call of register, unregister or clear
    reg_ops,        \* number of such calls
    prompt_disk,    \* version of each prompt file on disk
    prompt_cache,   \* PromptManager._cache
    load_pos,       \* _load: 0 when not running, else the next entry of LoadOrder
    old_tree,       \* history: _cache when the running reload began
    reader_pc,      \* a caller of PromptManager.get: "idle" or "got"
    get_key,        \* its path
    get_result,     \* what get returned
    redis,          \* Redis store behind SemanticCache, used by direct calls
    pl_op,          \* last direct call of the performance layer
    pl_query,       \* its query
    pl_fault,       \* the failure it met
    pl_result,      \* what it returned
    default_preferences, \* the dict object DEFAULT_USER_CONTEXT["preferences"]
    http_pc,        \* an HTTP chat request: "idle" or "dep" (dependency resolved)
    http_request,   \* its thread id and its request.state.auth_token
    base_context,   \* what get_user_context_dep returned for it
    initial_states, \* history: the initial state built for each chat request
    sg_pc,          \* DataTeam subgraph: the node to run next, "idle", "END" or "raised"
    sg_state,       \* its DataState
    sg_trace,       \* history: the nodes this invocation ran
    sg_route,       \* history: what check_execution returned last
    sg_invocations, \* invocations started so far
    sg_parent,      \* the parent state SubgraphWorker.execute was called with
    sg_final_state, \* run_subgraph's final_state: the last node's update
    sg_result,      \* what SubgraphWorker.execute returned last
    gw_current,     \* number of the GeneralWorker instance now registered
    gw_bits,        \* _tools_supported of each GeneralWorker instance
    gw_pc,          \* each caller of execute: "idle" or "with_tools" (awaiting the attempt)
    gw_instance,    \* the instance each caller's execute runs on
    gw_history,     \* history: instance and path of each execute, in order of completion
    rt_workers,     \* WorkerRegistry._workers: name -> the thread whose worker is stored, 0 for none
    rt_pc,          \* each registering thread: "idle", "checked" (past the test), "done"
    rt_call,        \* the arguments of each thread's register call
    rt_stores       \* history: the stores into _workers, in order

vars == <<registry, cache, checkpoint, answered, n_requests, pc, mode,
          user_message, thread_id, cache_result, state, prev_state, node_name,
          node_output, final_answer, events, result, dispatched, routing_llm,
          registry_seen, workers, graph_workers, reg_op, reg_ops,
          prompt_disk, prompt_cache, load_pos, old_tree, reader_pc, get_key, get_result,
          redis, pl_op, pl_query, pl_fault, pl_result,
          default_preferences, http_pc, http_request, base_context, initial_states,
          sg_pc, sg_state, sg_trace, sg_route, sg_invocations,
          sg_parent, sg_final_state, sg_result,
          gw_current, gw_bits, gw_pc, gw_instance, gw_history,
          rt_workers, rt_pc, rt_call, rt_stores>>

\* the DataTeam subgraph
sg_vars == <<sg_pc, sg_state, sg_trace, sg_route, sg_invocations,
             sg_parent, sg_final_state, sg_result>>

\* the user context of the HTTP layer
ctx_vars == <<default_preferences, http_pc, http_request, base_context, initial_states>>

\* the prompt manager and its callers
pm_vars == <<prompt_disk, prompt_cache, load_pos, old_tree, reader_pc, get_key, get_result>>

\* what the direct calls of the performance layer work on
pl_vars == <<redis, pl_op, pl_query, pl_fault, pl_result>>

\* the registry, the graph compiled from it, and the calls that change it
reg_vars == <<registry, workers, graph_workers, reg_op, reg_ops>>

\* what a request leaves alone
\* the General worker's instances and the executes running on them
gw_vars == <<gw_current, gw_bits, gw_pc, gw_instance, gw_history>>

\* the threads inside WorkerRegistry.register
rt_vars == <<rt_workers, rt_pc, rt_call, rt_stores>>

fixed == <<reg_vars, pl_vars, pm_vars, ctx_vars, sg_vars, gw_vars, rt_vars>>

\* what run and run_stream work on
request_vars == <<cache, checkpoint, answered, n_requests, pc, mode, user_message,
                  thread_id, cache_result, state, prev_state, node_name, node_output,
                  final_answer, events, result, dispatched, routing_llm, registry_seen>>

Init ==
    /\ registry \in RegistryChoices
    /\ cache = EmptyDict
    /\ checkpoint = [t \in Threads |-> <<>>]
    /\ answered = EmptyDict
    /\ n_requests = 0
    /\ pc = "idle"
    /\ mode = "stream"
    /\ user_message = ""
    /\ thread_id = "t1"
    /\ cache_result = [hit |-> FALSE]
    /\ state = DEFAULT_STATE
    /\ prev_state = DEFAULT_STATE
    /\ node_name = None
    /\ node_output = EmptyDict
    /\ final_answer = ""
    /\ events = <<>>
    /\ result = EmptyDict
    /\ dispatched = <<>>
    /\ routing_llm = FALSE
    /\ registry_seen = {}
    /\ workers = StartupWorkers(registry)
    /\ graph_workers = registry
    /\ reg_op = [kind |-> "none"]
    /\ reg_ops = 0
    /\ prompt_disk = [f \in PromptPrefixes |-> "v1"]
    /\ prompt_cache = prompt_disk
    /\ load_pos = 0
    /\ old_tree = prompt_cache
    /\ reader_pc = "idle"
    /\ get_key = "common.constraints"
    /\ get_result = DefaultPrompt
    /\ redis = EmptyStore
    /\ pl_op = "none"
    /\ pl_query = ""
    /\ pl_fault = NoFault
    /\ pl_result = [hit |-> FALSE]
    /\ default_preferences = EmptyDict
    /\ http_pc = "idle"
    /\ http_request = [thread_id |-> "t1", auth_token |-> NoToken]
    /\ base_context = DEFAULT_USER_CONTEXT
    /\ initial_states = <<>>
    /\ sg_pc = "idle"
    /\ sg_state = prepare_subgraph_input("")
    /\ sg_trace = <<>>
    /\ sg_route = None
    /\ sg_invocations = 0
    /\ sg_parent = DEFAULT_STATE
    /\ sg_final_state = EmptyDict
    /\ sg_result = EmptyDict
    /\ gw_current = 1
    /\ gw_bits = [i \in 1..MaxInstances |-> TRUE]
    /\ gw_pc = [c \in Callers |-> "idle"]
    /\ gw_instance = [c \in Callers |-> 1]
    /\ gw_history = <<>>
    /\ rt_workers = [n \in RegisterNames |-> 0]
    /\ rt_pc = [t \in RegisterThreads |-> "idle"]
    /\ rt_call = [t \in RegisterThreads |-> [name |-> "General", replace |-> FALSE]]
    /\ rt_stores = <<>>

\* The part run and run_stream share: the performance layer is asked first and,
\* on a miss, the inputs are written to the thread's graph state.
BeginRequest(m, q, t) ==
    /\ pc \in {"idle", "done"}
    /\ n_requests < MaxRequests
    /\ Len(checkpoint["t1"]) + Len(checkpoint["t2"]) <= MaxHistory
    /\ n_requests' = n_requests + 1
    /\ mode' = m
    /\ user_message' = q
    /\ thread_id' = t
    /\ cache_result' = process_query(cache, enable_cache, q)
    /\ state' = IF cache_result'.hit THEN DEFAULT_STATE
                ELSE ApplyUpdate([DEFAULT_STATE EXCEPT !.messages = checkpoint[t]],
                                 build_initial_state(q))
    /\ prev_state' = IF cache_result'.hit THEN DEFAULT_STATE ELSE build_initial_state(q)
    /\ checkpoint' = IF cache_result'.hit THEN checkpoint
                     ELSE [checkpoint EXCEPT ![t] = state'.messages]
    /\ node_name' = None
    /\ node_output' = EmptyDict
    /\ final_answer' = ""
    /\ dispatched' = <<>>
    /\ routing_llm' = FALSE
    /\ registry_seen' = {}
    /\ pc' = IF cache_result'.hit THEN "done" ELSE "supervisor"
    /\ UNCHANGED <<fixed, cache, answered>>

\* Variant of run_stream that yields nothing but start on a hit.
RunStream_silent_hit ==
    \E q \in Queries, t \in Threads :
        /\ BeginRequest("stream", q, t)
        /\ events' = <<to_dict("start", "", <<>>)>>
        /\ result' = EmptyDict

\* SupervisorService.run_stream up to the first graph step
RunStream ==
    \E q \in Queries, t \in Threads :
        /\ BeginRequest("stream", q, t)
        /\ events' = IF cache_result'.hit
                     THEN <<to_dict("start", "", <<>>),
                            to_dict("answer", cache_result'.answer, <<>>),
                            to_dict("done", "", <<>>)>>
                     ELSE <<to_dict("start", "", <<>>)>>
        /\ result' = EmptyDict

\* SupervisorService.run up to the first graph step
Run ==
    \E q \in Queries, t \in Threads :
        /\ BeginRequest("run", q, t)
        /\ events' = <<>>
        /\ result' = IF cache_result'.hit
                     THEN [answer |-> cache_result'.answer,
                           source |-> cache_result'.source,
                           cached |-> TRUE]
                     ELSE EmptyDict

\* What the consumer of graph_app.astream does with one update.
Consume(name, output) ==
    /\ state' = ApplyUpdate(state, output)
    /\ checkpoint' = [checkpoint EXCEPT ![thread_id] = state'.messages]
    /\ node_name' = name
    /\ node_output' = output
    /\ registry_seen' = registry_seen \cup {registry}
    /\ IF mode = "stream"
       THEN /\ events' = events \o parse_node_output(name, output, prev_state)
            /\ prev_state' = Overwrite(prev_state, output)
            /\ final_answer' = next_final_answer(final_answer, output)
       ELSE UNCHANGED <<events, prev_state, final_answer>>


\* The planning LLM is consulted when the supervisor gets past its guards with
\* an empty plan; the routing LLM when no fast path applies to the planned state.
PlannerCalled(st, reg) == ~IterationGuard(st) /\ reg # {} /\ NeedsPlan(st)

RouterCalled(st, reg, p) ==
    /\ ~IterationGuard(st)
    /\ reg # {}
    /\ ~(NeedsPlan(st) /\ p.kind = "llm_unavailable")
    /\ UsesRoutingLLM(Overwrite(st, IF NeedsPlan(st) THEN plan_task(st, p) ELSE EmptyDict),
                      Range(get_names(reg)))

\* One execution of the supervisor node and of the conditional edge after it.
\* The graph's worker nodes are those of the registry it was built from.
SupervisorNode ==
    /\ pc = "supervisor"
    /\ \E p \in IF PlannerCalled(state, registry) THEN PlannerOutputs ELSE {NoPlannerCall} :
          \E r \in IF RouterCalled(state, registry, p) THEN RouterOutputs ELSE {NoRouterCall} :
             /\ Consume("supervisor", supervisor_node(state, registry, p, r))
             /\ routing_llm' = (routing_llm \/ r.kind # "not_called")
    /\ pc' = IF graph_route(state', graph_workers) = "FINISH" THEN "end" ELSE "worker"
    /\ UNCHANGED <<fixed, cache, answered, n_requests, mode, user_message, thread_id,
                   cache_result, result, dispatched>>

\* One execution of the worker node the supervisor routed to.
WorkerNode ==
    /\ pc = "worker"
    /\ \E outcome \in Outcomes(state.next) :
          Consume(state.next, worker_node(state.next, state, registry, outcome))
    /\ dispatched' = Append(dispatched, state.next)
    /\ pc' = "supervisor"
    /\ UNCHANGED <<fixed, cache, answered, n_requests, mode, user_message, thread_id,
                   cache_result, result, routing_llm>>

\* history: the request in flight completed
Completed ==
    IF FinalAnswerOf(state) # ""
    THEN (user_message :> FinalAnswerOf(state)) @@ answered
    ELSE answered

\* run_stream after the graph reached END: cache the answer, emit done.
StreamFinish ==
    /\ pc = "end"
    /\ mode = "stream"
    /\ cache' = IF final_answer # ""
                THEN cache_set(cache, enable_cache, user_message, final_answer)
                ELSE cache
    /\ events' = Append(events, to_dict("done", "", <<>>))
    /\ answered' = Completed
    /\ pc' = "done"
    /\ UNCHANGED <<fixed, checkpoint, n_requests, mode, user_message, thread_id, cache_result,
                   state, prev_state, node_name, node_output, final_answer, result,
                   dispatched, routing_llm, registry_seen>>

\* run after the graph reached END: final_state is the last update streamed.
RunFinish ==
    /\ pc = "end"
    /\ mode = "run"
    /\ cache' = IF node_output # EmptyDict /\ "messages" \in DOMAIN node_output
                   /\ node_output.messages # <<>>
                THEN cache_set(cache, enable_cache, user_message,
                               node_output.messages[Len(node_output.messages)].content)
                ELSE cache
    /\ result' = node_output
    /\ answered' = Completed
    /\ pc' = "done"
    /\ UNCHANGED <<fixed, checkpoint, n_requests, mode, user_message, thread_id, cache_result,
                   state, prev_state, node_name, node_output, final_answer, events,
                   dispatched, routing_llm, registry_seen>>

\* Variant of the except branch that yields the error event and goes on
\* iterating.
EngineFault_continues ==
    /\ pc \in {"supervisor", "worker"}
    /\ mode = "stream"
    /\ events' = Append(events, to_dict("error", "graph engine error", <<>>))
    /\ UNCHANGED <<fixed, cache, checkpoint, answered, n_requests, pc, mode, user_message,
                   thread_id, cache_result, state, prev_state, node_name, node_output,
                   final_answer, result, dispatched, routing_llm, registry_seen>>

\* Variant of the except branch that caches the answer seen so far.
EngineFault_caches ==
    /\ pc \in {"supervisor", "worker"}
    /\ IF mode = "stream"
       THEN /\ events' = Append(events, to_dict("error", "graph engine error", <<>>))
            /\ UNCHANGED result
       ELSE /\ result' = [error |-> "graph engine error", error_type |-> "execution_error"]
            /\ UNCHANGED events
    /\ cache' = IF final_answer # ""
                THEN cache_set(cache, enable_cache, user_message, final_answer)
                ELSE cache
    /\ pc' = "done"
    /\ UNCHANGED <<fixed, checkpoint, answered, n_requests, mode, user_message,
                   thread_id, cache_result, state, prev_state, node_name, node_output,
                   final_answer, dispatched, routing_llm, registry_seen>>

\* graph_app.astream raises while the updates are iterated: the except branch
\* of run_stream (an error event, return) and of run (an error dict).
EngineFault ==
    /\ pc \in {"supervisor", "worker"}
    /\ IF mode = "stream"
       THEN /\ events' = Append(events, to_dict("error", "graph engine error", <<>>))
            /\ UNCHANGED result
       ELSE /\ result' = [error |-> "graph engine error", error_type |-> "execution_error"]
            /\ UNCHANGED events
    /\ pc' = "done"
    /\ UNCHANGED <<fixed, cache, checkpoint, answered, n_requests, mode, user_message,
                   thread_id, cache_result, state, prev_state, node_name, node_output,
                   final_answer, dispatched, routing_llm, registry_seen>>

Next ==
    \/ RunStream
    \/ Run
    \/ SupervisorNode
    \/ WorkerNode
    \/ StreamFinish
    \/ RunFinish
    \/ EngineFault

Spec == Init /\ [][Next]_vars

TypeOK ==
    /\ pc \in {"idle", "supervisor", "worker", "end", "done"}
    /\ mode \in {"stream", "run"}
    /\ n_requests \in 0..MaxRequests
    /\ state.iteration_count \in Nat


\* ------------------------------------------- performance layer, direct calls
\* Answers a caller may hand to cache_answer.
AnswerTexts == {AnswerOf("General"), AnswerOf("DataTeam")}

\* One call of PerformanceLayer.process_query, with the failure it meets.
ProcessQuery ==
    \E q \in Queries, f \in ReadFaults :
        /\ pl_op' = "process_query"
        /\ pl_query' = q
        /\ pl_fault' = f
        /\ pl_result' = PerformanceLayer_process_query(redis, enable_cache, q, f)
        /\ UNCHANGED <<redis, reg_vars, request_vars, pm_vars, ctx_vars, sg_vars, gw_vars, rt_vars>>

\* One call of PerformanceLayer.cache_answer, with the failure it meets.
CacheAnswer ==
    \E q \in Queries, a \in AnswerTexts, f \in WriteFaults :
        /\ pl_op' = "cache_answer"
        /\ pl_query' = q
        /\ pl_fault' = [kind |-> f, key |-> ""]
        /\ redis' = PerformanceLayer_cache_answer(redis, enable_cache, q, a, f)
        /\ pl_result' = [returned |-> TRUE]
        /\ UNCHANGED <<reg_vars, request_vars, pm_vars, ctx_vars, sg_vars, gw_vars, rt_vars>>

CacheNext ==
    \/ ProcessQuery
    \/ CacheAnswer

CacheSpec == Init /\ [][CacheNext]_vars

\* ------------------------------------------------ registry, calls after startup
\* One call of WorkerRegistry.register.
Register ==
    \E w \in WorkerObjects, replace \in BOOLEAN :
        /\ reg_ops < MaxRegistryOps
        /\ workers' = register(workers, w, replace)
        /\ registry' = Names(workers')
        /\ reg_op' = [kind |-> "register", worker |-> w, replace |-> replace]
        /\ reg_ops' = reg_ops + 1
        /\ UNCHANGED <<graph_workers, pl_vars, request_vars, pm_vars, ctx_vars, sg_vars, gw_vars, rt_vars>>

\* One call of WorkerRegistry.unregister.
Unregister ==
    \E n \in WorkerNames :
        /\ reg_ops < MaxRegistryOps
        /\ workers' = unregister(workers, n)
        /\ registry' = Names(workers')
        /\ reg_op' = [kind |-> "unregister", name |-> n]
        /\ reg_ops' = reg_ops + 1
        /\ UNCHANGED <<graph_workers, pl_vars, request_vars, pm_vars, ctx_vars, sg_vars, gw_vars, rt_vars>>

\* One call of WorkerRegistry.clear.
Clear ==
    /\ reg_ops < MaxRegistryOps
    /\ workers' = clear(workers)
    /\ registry' = Names(workers')
    /\ reg_op' = [kind |-> "clear"]
    /\ reg_ops' = reg_ops + 1
    /\ UNCHANGED <<graph_workers, pl_vars, request_vars, pm_vars, ctx_vars, sg_vars, gw_vars, rt_vars>>

RegistryNext ==
    \/ Register
    \/ Unregister
    \/ Clear

RegistrySpec == Init /\ [][RegistryNext]_vars

\* ------------------------------- a request with a concurrent registry call
\* The first run_stream of the service.
FirstStream == n_requests = 0 /\ RunStream

\* Another caller's register, unregister or clear, made once while the request
\* is between two node executions of the graph.
ConcurrentRegistryCall ==
    /\ pc \in {"supervisor", "worker"}
    /\ reg_ops = 0
    /\ RegistryNext

ConcNext ==
    \/ FirstStream
    \/ SupervisorNode
    \/ WorkerNode
    \/ StreamFinish
    \/ ConcurrentRegistryCall

ConcSpec == Init /\ [][ConcNext]_vars

\* ----------------------------------------- prompt manager, reload and readers
\* The files of one prefix are edited while no reload runs.
EditPrompts ==
    \E f \in PromptPrefixes, v \in PromptVersions :
        /\ load_pos = 0
        /\ prompt_disk[f] # v
        /\ prompt_disk' = [prompt_disk EXCEPT ![f] = v]
        /\ UNCHANGED <<prompt_cache, load_pos, old_tree, reader_pc, get_key, get_result,
                       reg_vars, pl_vars, request_vars, ctx_vars, sg_vars, gw_vars, rt_vars>>

\* reload calls _load, which takes the load lock and sets _cache to {}.
ReloadBegin ==
    /\ load_pos = 0
    /\ old_tree' = prompt_cache
    /\ prompt_cache' = EmptyTree
    /\ load_pos' = 1
    /\ UNCHANGED <<prompt_disk, reader_pc, get_key, get_result,
                   reg_vars, pl_vars, request_vars, ctx_vars, sg_vars, gw_vars, rt_vars>>

\* _load reads the next folder or file and stores it under its prefix; after
\* the last one it releases the lock and reload returns.
ReloadStep ==
    /\ load_pos > 0
    /\ prompt_cache' = (LoadOrder[load_pos] :> prompt_disk[LoadOrder[load_pos]]) @@ prompt_cache
    /\ load_pos' = IF load_pos = Len(LoadOrder) THEN 0 ELSE load_pos + 1
    /\ UNCHANGED <<prompt_disk, old_tree, reader_pc, get_key, get_result,
                   reg_vars, pl_vars, request_vars, ctx_vars, sg_vars, gw_vars, rt_vars>>

\* A caller runs PromptManager.get on the tree as it is (get takes no lock).
Get ==
    \E k \in PromptKeys :
        /\ reader_pc = "idle"
        /\ reader_pc' = "got"
        /\ get_key' = k
        /\ get_result' = prompt_get(prompt_cache, k, DefaultPrompt)
        /\ UNCHANGED <<prompt_disk, prompt_cache, load_pos, old_tree,
                       reg_vars, pl_vars, request_vars, ctx_vars, sg_vars, gw_vars, rt_vars>>

\* The caller goes on with the prompt it got.
GetReturn ==
    /\ reader_pc = "got"
    /\ reader_pc' = "idle"
    /\ UNCHANGED <<prompt_disk, prompt_cache, load_pos, old_tree, get_key, get_result,
                   reg_vars, pl_vars, request_vars, ctx_vars, sg_vars, gw_vars, rt_vars>>

PromptNext ==
    \/ EditPrompts
    \/ ReloadBegin
    \/ ReloadStep
    \/ Get
    \/ GetReturn

PromptSpec == Init /\ [][PromptNext]_vars

\* ------------------------------------------------- the HTTP layer's context
\* FastAPI resolves Depends(get_user_context_dep) for a chat request that
\* passed the auth middleware.
GetUserContextDep ==
    \E t \in Threads, tok \in AuthTokens \cup {NoToken} :
        /\ http_pc = "idle"
        /\ Len(initial_states) < MaxContexts
        /\ http_pc' = "dep"
        /\ http_request' = [thread_id |-> t, auth_token |-> tok]
        /\ LET r == get_user_context_dep(None, tok, default_preferences)
           IN  /\ base_context' = r.context
               /\ default_preferences' = r.preferences
        /\ UNCHANGED <<initial_states, reg_vars, pl_vars, pm_vars, request_vars, sg_vars, gw_vars, rt_vars>>

\* chat / chat_stream: _build_user_context, then the service builds the
\* initial state of the request.
Chat ==
    /\ http_pc = "dep"
    /\ http_pc' = "idle"
    /\ initial_states' =
           Append(initial_states,
                  [thread_id |-> http_request.thread_id,
                   auth_token |-> http_request.auth_token,
                   state |-> Overwrite(build_initial_state("hello"),
                                [user_context |->
                                   initial_user_context(
                                       build_user_context(http_request.thread_id,
                                                          base_context))])])
    /\ UNCHANGED <<default_preferences, http_request, base_context,
                   reg_vars, pl_vars, pm_vars, request_vars, sg_vars, gw_vars, rt_vars>>

ContextNext ==
    \/ GetUserContextDep
    \/ Chat

ContextSpec == Init /\ [][ContextNext]_vars

\* user_context["preferences"] as a node of the request reads it
preferences_of(user_context) ==
    IF user_context.preferences = SharedPreferences
    THEN default_preferences
    ELSE user_context.preferences

\* --------------------------------------------- the DataTeam subgraph's runs
\* Parent states DataTeam is executed in: the request's plan is DataTeam
\* alone or DataTeam followed by Researcher, and DataTeam's step is current.
SubgraphParents(q) ==
    {Overwrite(build_initial_state(q),
               [task_plan |-> [i \in DOMAIN ws |-> create_task_step(ws[i])],
                current_step_index |-> 0,
                next |-> "DataTeam"]) :
        ws \in {<<"DataTeam">>, <<"DataTeam", "Researcher">>}}

\* SubgraphWorker.execute prepares the input and starts the subgraph at its
\* entry point.
SubgraphInvoke ==
    \E q \in Queries \ {""} :
        \E parent \in SubgraphParents(q) :
            /\ sg_pc = "idle"
            /\ sg_invocations < MaxInvocations
            /\ sg_invocations' = sg_invocations + 1
            /\ sg_parent' = parent
            /\ sg_state' = prepare_subgraph_input(parent.original_query)
            /\ sg_trace' = <<>>
            /\ sg_route' = None
            /\ sg_final_state' = EmptyDict
            /\ sg_pc' = "generate_sql"
            /\ UNCHANGED <<sg_result, reg_vars, pl_vars, pm_vars, request_vars, ctx_vars, gw_vars, rt_vars>>

\* generate_sql, then the edge to execute_sql; the LLM call may raise, which
\* ends the invocation with the exception.
GenerateSql ==
    /\ sg_pc = "generate_sql"
    /\ sg_trace' = Append(sg_trace, "generate_sql")
    /\ \/ \E sql \in SqlTexts :
             /\ sg_final_state' = generate_sql_node(sg_state, sql)
             /\ sg_state' = ApplyDataUpdate(sg_state, sg_final_state')
             /\ sg_pc' = "execute_sql"
       \/ /\ sg_pc' = "raised"
          /\ UNCHANGED <<sg_state, sg_final_state>>
    /\ UNCHANGED <<sg_route, sg_invocations, sg_parent, sg_result,
                   reg_vars, pl_vars, pm_vars, request_vars, ctx_vars, gw_vars, rt_vars>>

\* execute_sql, then the conditional edge check_execution
ExecuteSql ==
    /\ sg_pc = "execute_sql"
    /\ sg_trace' = Append(sg_trace, "execute_sql")
    /\ \E e \in {"ok"} \cup DbErrors :
          /\ sg_final_state' = execute_sql_node(sg_state, e)
          /\ sg_state' = ApplyDataUpdate(sg_state, sg_final_state')
    /\ sg_route' = check_execution(sg_state')
    /\ sg_pc' = edge_target(sg_route')
    /\ UNCHANGED <<sg_invocations, sg_parent, sg_result,
                   reg_vars, pl_vars, pm_vars, request_vars, ctx_vars, gw_vars, rt_vars>>

\* analyze_data, then the edge to END; the LLM call may raise
AnalyzeData ==
    /\ sg_pc = "analyze_data"
    /\ sg_trace' = Append(sg_trace, "analyze_data")
    /\ \/ /\ sg_final_state' = analyze_result_node(sg_state)
          /\ sg_state' = ApplyDataUpdate(sg_state, sg_final_state')
          /\ sg_pc' = "END"
       \/ /\ sg_pc' = "raised"
          /\ UNCHANGED <<sg_state, sg_final_state>>
    /\ UNCHANGED <<sg_route, sg_invocations, sg_parent, sg_result,
                   reg_vars, pl_vars, pm_vars, request_vars, ctx_vars, gw_vars, rt_vars>>

\* give_up, then the edge to END
GiveUp ==
    /\ sg_pc = "give_up"
    /\ sg_trace' = Append(sg_trace, "give_up")
    /\ sg_final_state' = give_up_node(sg_state)
    /\ sg_state' = ApplyDataUpdate(sg_state, sg_final_state')
    /\ sg_pc' = "END"
    /\ UNCHANGED <<sg_route, sg_invocations, sg_parent, sg_result,
                   reg_vars, pl_vars, pm_vars, request_vars, ctx_vars, gw_vars, rt_vars>>

\* SubgraphWorker.execute after run_subgraph: process_subgraph_output on the
\* final_state, or the except branch when the subgraph raised.
SubgraphReturn ==
    /\ sg_pc \in {"END", "raised"}
    /\ sg_result' = IF sg_pc = "raised"
                    THEN subgraph_execute("DataTeam", sg_parent, "exception")
                    ELSE process_subgraph_output("DataTeam", sg_final_state, sg_parent)
    /\ sg_parent' = IF sg_pc = "raised"
                    THEN sg_parent
                    ELSE process_subgraph_output_parent("DataTeam", sg_final_state, sg_parent)
    /\ sg_pc' = "idle"
    /\ UNCHANGED <<sg_state, sg_trace, sg_route, sg_invocations, sg_final_state,
                   reg_vars, pl_vars, pm_vars, request_vars, ctx_vars, gw_vars, rt_vars>>

SubgraphNext ==
    \/ SubgraphInvoke
    \/ GenerateSql
    \/ ExecuteSql
    \/ AnalyzeData
    \/ GiveUp
    \/ SubgraphReturn

SubgraphSpec == Init /\ [][SubgraphNext]_vars

\* ------------------------------------------- executes of the General worker
\* GeneralWorker.execute up to its first await: with the bit set it starts the
\* attempt with tools, otherwise it answers on the fallback path.
GeneralExecute ==
    \E c \in Callers :
        /\ gw_pc[c] = "idle"
        /\ Len(gw_history) + Cardinality({d \in Callers : gw_pc[d] # "idle"}) < MaxExecutes
        /\ gw_instance' = [gw_instance EXCEPT ![c] = gw_current]
        /\ IF gw_bits[gw_current]
           THEN /\ gw_pc' = [gw_pc EXCEPT ![c] = "with_tools"]
                /\ UNCHANGED gw_history
           ELSE /\ gw_history' = Append(gw_history,
                                        [caller |-> c, instance |-> gw_current, path |-> "fallback"])
                /\ UNCHANGED gw_pc
        /\ UNCHANGED <<gw_current, gw_bits,
                       reg_vars, pl_vars, pm_vars, request_vars, ctx_vars, sg_vars, rt_vars>>

\* The attempt with tools returns: the except branch clears the bit when the
\* model rejected tools and goes on without tools.
GeneralToolsReturn ==
    \E c \in Callers, outcome \in ToolOutcomes :
        /\ gw_pc[c] = "with_tools"
        /\ gw_pc' = [gw_pc EXCEPT ![c] = "idle"]
        /\ gw_bits' = [gw_bits EXCEPT ![gw_instance[c]] =
                           tools_supported_after(gw_bits[gw_instance[c]], outcome)]
        /\ gw_history' = Append(gw_history,
                                [caller |-> c, instance |-> gw_instance[c],
                                 path |-> tools_path(outcome)])
        /\ UNCHANGED <<gw_current, gw_instance,
                       reg_vars, pl_vars, pm_vars, request_vars, ctx_vars, sg_vars, rt_vars>>

\* reset_workers registers a new GeneralWorker.
GeneralReplace ==
    /\ gw_current < MaxInstances
    /\ gw_current' = gw_current + 1
    /\ UNCHANGED <<gw_bits, gw_pc, gw_instance, gw_history,
                   reg_vars, pl_vars, pm_vars, request_vars, ctx_vars, sg_vars, rt_vars>>

GeneralNext ==
    \/ GeneralExecute
    \/ GeneralToolsReturn
    \/ GeneralReplace

GeneralSpec == Init /\ [][GeneralNext]_vars

\* ------------------------------------------------- threads that register
\* register up to its store: the test reads _workers; a call for a name that
\* is present returns at once unless replace is set.  No lock is held between
\* the test and the store, so another thread may run in between.
RegisterTest ==
    \E t \in RegisterThreads, n \in RegisterNames, replace \in BOOLEAN :
        /\ rt_pc[t] = "idle"
        /\ rt_call' = [rt_call EXCEPT ![t] = [name |-> n, replace |-> replace]]
        /\ rt_pc' = [rt_pc EXCEPT ![t] =
                        IF register_passes(rt_workers, n, replace) THEN "checked" ELSE "done"]
        /\ UNCHANGED <<rt_workers, rt_stores,
                       reg_vars, pl_vars, pm_vars, request_vars, ctx_vars, sg_vars, gw_vars>>

\* register: self._workers[worker.name] = worker
RegisterStore ==
    \E t \in RegisterThreads :
        /\ rt_pc[t] = "checked"
        /\ rt_workers' = [rt_workers EXCEPT ![rt_call[t].name] = t]
        /\ rt_stores' = Append(rt_stores, [thread |-> t, name |-> rt_call[t].name,
                                           replace |-> rt_call[t].replace])
        /\ rt_pc' = [rt_pc EXCEPT ![t] = "done"]
        /\ UNCHANGED <<rt_call,
                       reg_vars, pl_vars, pm_vars, request_vars, ctx_vars, sg_vars, gw_vars>>

RegisterNext ==
    \/ RegisterTest
    \/ RegisterStore

RegisterSpec == Init /\ [][RegisterNext]_vars

\* ------------------------------------------------------------------ claims
Types(evs) == [i \in DOMAIN evs |-> evs[i].type]
Last(seq) == seq[Len(seq)]
StreamEnded == mode = "stream" /\ pc = "done"

\* C1: in every run_stream execution the first event is start and no other
\* event is a start; done or error occurs only as the last event of a stream
\* that has ended, and an ended stream ends with one of them.
C1_StreamFraming ==
    /\ (mode = "stream" /\ pc # "idle") => (events # <<>> /\ events[1].type = "start")
    /\ \A i \in DOMAIN events : events[i].type = "start" => i = 1
    /\ \A i \in DOMAIN events :
          events[i].type \in {"done", "error"} => (i = Len(events) /\ pc = "done")
    /\ StreamEnded => Last(events).type \in {"done", "error"}

\* a stream that passed answers and a progress event before its done
C1_Witness ==
    /\ StreamEnded
    /\ Last(events).type = "done"
    /\ \E i, j \in DOMAIN events : events[i].type = "progress" /\ events[j].type = "answer"

\* C2: when the graph reaches END the supervisor has decided FINISH, at most
\* max_iterations workers were dispatched, and a run ended by the iteration
\* guard (it is, exactly when max_iterations workers were dispatched) carries
\* metadata.terminated_reason = max_iterations_reached.
C2_EndsByFinish ==
    pc = "end" =>
        /\ state.next = "FINISH"
        /\ Len(dispatched) <= max_iterations
        /\ Len(dispatched) = max_iterations =>
              /\ "terminated_reason" \in DOMAIN state.metadata
              /\ state.metadata["terminated_reason"] = "max_iterations_reached"

\* C3: iteration_count never exceeds max_iterations; a supervisor entry raises
\* it by at most 1, and an entry at the bound returns FINISH without raising it.
C3_IterationBound ==
    /\ [](state.iteration_count <= max_iterations)
    /\ [][(pc = "supervisor" /\ pc' \in {"worker", "end"}) =>
             /\ state'.iteration_count \in {state.iteration_count, state.iteration_count + 1}
             /\ state.iteration_count >= max_iterations =>
                   /\ state'.iteration_count = state.iteration_count
                   /\ node_output'.next = "FINISH"
                   /\ pc' = "end"]_vars

\* a run that the iteration guard ended at the bound
C3_Witness ==
    /\ pc = "end"
    /\ state.iteration_count = max_iterations
    /\ "terminated_reason" \in DOMAIN state.metadata

\* C4: the update of a worker node whose execution failed carries an assistant
\* message authored by that worker and marks the current plan step failed.
FailureUpdate(u) == "metadata" \in DOMAIN u /\ "error_type" \in DOMAIN u.metadata
C4_WorkerFailureMarked ==
    (node_name \in WorkerNames /\ FailureUpdate(node_output)) =>
        /\ "messages" \in DOMAIN node_output
        /\ node_output.messages # <<>>
        /\ Last(node_output.messages).type = "ai"
        /\ Last(node_output.messages).name = node_name
        /\ state.current_step_index < Len(state.task_plan) =>
              state.task_plan[state.current_step_index + 1].status = "failed"

\* C5: in a request on a fresh thread whose plan names registered workers
\* only, where the routing LLM was never consulted and every worker either
\* succeeded or returned an error response, the workers dispatched are the
\* plan's workers in list order, each step once.
PlanWorkers(plan) == [i \in DOMAIN plan |-> plan[i].worker]
OnlyResponses ==
    /\ user_message # ""
    /\ \A i \in DOMAIN state.messages :
          state.messages[i].content # FailureContent(ErrorOf("DataTeam"))
FreshThread == Len(SelectSeq(state.messages, LAMBDA m : m.type = "human")) = 1
C5_PlanOrderDispatch ==
    (/\ pc = "end"
     /\ state.task_plan # <<>>
     /\ \A i \in DOMAIN state.task_plan : state.task_plan[i].worker \in registry
     /\ ~routing_llm
     /\ OnlyResponses
     /\ FreshThread)
    => dispatched = PlanWorkers(state.task_plan)

\* C6: when the graph reaches END every step of the plan is completed, failed
\* or skipped.
C6_FinalPlanTerminal ==
    pc = "end" => \A i \in DOMAIN state.task_plan : IsTerminal(state.task_plan[i])

\* C7: a request whose query an earlier completed request answered with a
\* worker's answer is served by the performance layer with that answer, without
\* entering the graph.
WorkerAnswers == {AnswerOf(w) : w \in WorkerNames}
C7_RepeatServedFromCache ==
    [][(/\ n_requests' = n_requests + 1
        /\ user_message' \in DOMAIN answered
        /\ answered[user_message'] \in WorkerAnswers) =>
          /\ cache_result'.hit
          /\ cache_result'.answer = answered[user_message']
          /\ pc' = "done"
          /\ mode' = "run" => (result' = [answer |-> answered[user_message'],
                                          source |-> "semantic_cache",
                                          cached |-> TRUE])
          /\ mode' = "stream" => Types(events') = <<"start", "answer", "done">>]_vars

\* C8: on a performance-layer hit run_stream yields exactly start, answer with
\* the canned or cached content, done; no node ran and no plan exists.
C8_HitStream ==
    (mode = "stream" /\ pc # "idle" /\ cache_result.hit) =>
        /\ pc = "done"
        /\ Types(events) = <<"start", "answer", "done">>
        /\ "content" \in DOMAIN events[2]
        /\ events[2].content = cache_result.answer
        /\ node_name = None
        /\ dispatched = <<>>
        /\ state.task_plan = <<>>
        /\ state.iteration_count = 0

\* a stream answered from the semantic cache
C8_Witness ==
    /\ StreamEnded
    /\ cache_result.hit
    /\ cache_result.source = "semantic_cache"

\* C9: an error event is the last event of an ended stream that holds no done;
\* the step that meets the exception adds exactly the error event and writes
\* nothing to the cache, and the cache is written only by a request that
\* reached END.
C9_ErrorEndsStream ==
    /\ [](\A i \in DOMAIN events :
             events[i].type = "error" =>
                /\ i = Len(events)
                /\ pc = "done"
                /\ \A j \in DOMAIN events : events[j].type # "done")
    /\ [][/\ (mode = "stream" /\ pc \in {"supervisor", "worker"} /\ pc' = "done") =>
                /\ Len(events') = Len(events) + 1
                /\ SubSeq(events', 1, Len(events)) = events
                /\ Last(events').type = "error"
                /\ cache' = cache
          /\ cache' # cache => pc = "end"]_vars

\* a stream that failed after a worker's answer had been passed on
C9_Witness ==
    /\ StreamEnded
    /\ Last(events).type = "error"
    /\ final_answer # ""
    /\ user_message \notin DOMAIN cache

\* C10: every answer event carries a non-empty content field.
C10_AnswerHasContent ==
    \A i \in DOMAIN events :
        events[i].type = "answer" =>
            ("content" \in DOMAIN events[i] /\ events[i].content # "")

\* C11: the stored task_plan never holds more than max_task_steps steps.
C11_PlanWithinCap == Len(state.task_plan) <= max_task_steps

\* C12: every completed or failed step has its result or its error set, and a
\* stored result is at most max_result_length characters long.
C12_StepResultBounded ==
    \A i \in DOMAIN state.task_plan :
        state.task_plan[i].status \in {"completed", "failed"} =>
            /\ state.task_plan[i].result # None \/ state.task_plan[i].error # None
            /\ state.task_plan[i].result # None =>
                  Chars(state.task_plan[i].result) <= max_result_length

\* C13: with an empty registry the first supervisor entry of a request returns
\* FINISH and the raised iteration count and nothing else (no plan, no routing
\* step), the graph ends there, and a stream that ends with done after entering
\* the graph is exactly start, done.
C13_EmptyRegistryFinishes ==
    /\ [][(registry = {} /\ pc = "supervisor" /\ pc' # "done") =>
             /\ state.iteration_count = 0
             /\ node_output' = [next |-> "FINISH", iteration_count |-> 1]
             /\ state'.task_plan = <<>>
             /\ state'.thinking_steps = <<>>
             /\ routing_llm' = FALSE
             /\ pc' = "end"]_vars
    /\ []((registry = {} /\ StreamEnded /\ ~cache_result.hit /\ Last(events).type = "done")
            => Types(events) = <<"start", "done">>)

\* a stream that went through the supervisor of an empty registry
C13_Witness ==
    /\ registry = {}
    /\ StreamEnded
    /\ node_name = "supervisor"
    /\ Types(events) = <<"start", "done">>

\* C14: a run that missed the performance layer, reached END and in which a
\* worker produced the last message returns a state that holds that assistant
\* message, and the semantic cache maps the query to the final answer.
C14_RunAggregatesAndCaches ==
    (/\ mode = "run"
     /\ pc = "done"
     /\ ~cache_result.hit
     /\ "error" \notin DOMAIN result
     /\ FinalAnswerOf(state) # "")
    => /\ "messages" \in DOMAIN result
       /\ \E i \in DOMAIN result.messages :
             /\ result.messages[i].type = "ai"
             /\ result.messages[i].content = FinalAnswerOf(state)
       /\ user_message \in DOMAIN cache
       /\ cache[user_message] = FinalAnswerOf(state)

\* what process_query returns for the query with the semantic cache disabled
DisabledResult == PerformanceLayer_process_query(redis, FALSE, pl_query, NoFault)
\* what it returns from the same store when nothing fails
FaultlessResult == PerformanceLayer_process_query(redis, enable_cache, pl_query, NoFault)

C16_RuleBeforeCache ==
    pl_op = "process_query" =>
        /\ rule_match(pl_query).hit =>
              (pl_result = rule_match(pl_query) /\ pl_result.source = "rule_engine")
        /\ (pl_result.hit /\ pl_result.source = "semantic_cache") =>
              ~rule_match(pl_query).hit
        /\ ~pl_result.hit <=>
              /\ ~rule_match(pl_query).hit
              /\ ~SemanticCache_get(redis, enable_cache, pl_query, pl_fault).hit

\* a rule answered a query for which the store holds a cached answer
C16_Witness ==
    /\ pl_op = "process_query"
    /\ pl_fault = NoFault
    /\ rule_match(pl_query).hit
    /\ pl_query \in redis.vectors
    /\ pl_query \in DOMAIN redis.data
    /\ pl_result.source = "rule_engine"

C18_OneRegistryPerRequest == Cardinality(registry_seen) <= 1

\* C19: a get returns the value the path has in the tree that was complete
\* before the running reload, or in the tree that reload builds from the files
\* on disk; without a reload running, the value it has in the tree.
C19_ReloadAtomicForReaders ==
    [][(reader_pc = "idle" /\ reader_pc' = "got") =>
          get_result' \in {prompt_get(IF load_pos = 0 THEN prompt_cache ELSE old_tree,
                                       get_key', DefaultPrompt),
                            prompt_get(prompt_disk, get_key', DefaultPrompt)}]_vars

\* C20: the initial state built for a request holds nothing of another
\* request: for two requests with different thread ids, the preferences one
\* sees hold no auth token that only the other supplied, and its task_plan
\* and thinking_steps are empty.
C20_InitialStatesIndependent ==
    \A i, j \in DOMAIN initial_states :
        LET mine == initial_states[i]
            other == initial_states[j]
            seen == preferences_of(mine.state.user_context)
        IN  mine.thread_id # other.thread_id =>
                /\ mine.state.task_plan = <<>>
                /\ mine.state.thinking_steps = <<>>
                /\ ("auth_token" \in DOMAIN seen /\ seen.auth_token = other.auth_token)
                       => mine.auth_token = other.auth_token

\* C21: a request whose plan is a single step naming a registered worker has
\* that worker dispatched before the graph ends, whatever the thread's
\* checkpointed history holds (the routing LLM is not consulted for such a plan).
C21_SingleStepDispatched ==
    (/\ pc = "end"
     /\ Len(state.task_plan) = 1
     /\ state.task_plan[1].worker \in registry
     /\ ~routing_llm)
    => state.task_plan[1].worker \in Range(dispatched)

\* C22: the standard error response of a worker appends one assistant message
\* authored by the worker, marks task_plan[current_step_index] failed with the
\* error text, raises current_step_index by 1, and sets metadata.error and
\* metadata.error_type.
IsErrorResponse(u) == FailureUpdate(u) /\ u.metadata["error_type"] = "execution_error"
C22_ErrorResponse ==
    [][(pc = "worker" /\ pc' = "supervisor" /\ IsErrorResponse(node_output')) =>
          /\ Len(state'.messages) = Len(state.messages) + 1
          /\ Last(state'.messages).type = "ai"
          /\ Last(state'.messages).name = node_name'
          /\ "error" \in DOMAIN state'.metadata
          /\ state'.metadata["error_type"] = "execution_error"
          /\ state.current_step_index < Len(state.task_plan) =>
                /\ state'.task_plan[state.current_step_index + 1].status = "failed"
                /\ state'.task_plan[state.current_step_index + 1].error = state'.metadata["error"]
                /\ state'.current_step_index = state.current_step_index + 1]_vars

\* C23: every supervisor entry returns one partial update that sets next and
\* carries iteration_count raised by 1.
SupervisorStep == pc = "supervisor" /\ pc' \in {"worker", "end"}
C23_UpdateSetsNextAndCount ==
    [][SupervisorStep =>
          /\ "next" \in DOMAIN node_output'
          /\ "iteration_count" \in DOMAIN node_output'
          /\ node_output'.iteration_count = state.iteration_count + 1]_vars

\* C24: at every supervisor entry 0 <= current_step_index <= len(task_plan).
C24_StepIndexInPlan ==
    pc = "supervisor" =>
        /\ 0 <= state.current_step_index
        /\ state.current_step_index <= Len(state.task_plan)

\* C25: when neither FINISH fast path applies and the plan has a non-terminal
\* step, the decision is taken from the first non-terminal step only: next is
\* that step's worker when it is registered (exact or case-insensitive match),
\* else General when General is registered; no later step's worker is chosen
\* and the routing LLM is not called.
FirstNonTerminal(plan) == Min({i \in DOMAIN plan : ~IsTerminal(plan[i])})
HasNonTerminal(plan) == \E i \in DOMAIN plan : ~IsTerminal(plan[i])
\* the plan the routing phase of a supervisor step worked on
RoutedPlan(st, update) ==
    IF st.task_plan # <<>> THEN st.task_plan
    ELSE IF "task_plan" \in DOMAIN update THEN update.task_plan
    ELSE <<>>
C25_FirstStepDecides ==
    [][LET plan == RoutedPlan(state, node_output')
           routed == [state EXCEPT !.task_plan = plan]
       IN  (/\ SupervisorStep
            /\ ~IterationGuard(state)
            /\ plan # <<>>
            /\ ~FastPathAllDone(routed)
            /\ ~FastPathSingleStep(routed, registry)
            /\ HasNonTerminal(plan))
           => LET first == FirstNonTerminal(plan)
                  target == ResolvePlanned(plan[first].worker, registry)
              IN  /\ ~UsesRoutingLLM(routed, registry)
                  /\ "next" \in DOMAIN node_output'
                  /\ target # None => node_output'.next = target
                  /\ target = None =>
                        \A i \in DOMAIN plan :
                            (i > first /\ ~IsTerminal(plan[i]))
                            => node_output'.next # ResolvePlanned(plan[i].worker, registry)]_vars

\* C26: once a step is failed, no worker update of the same request changes
\* its status or result.
WorkerStep == pc = "worker" /\ pc' = "supervisor"
C26_FailedStepKept ==
    [][WorkerStep =>
          \A i \in DOMAIN state.task_plan :
              state.task_plan[i].status = "failed" =>
                  /\ i \in DOMAIN state'.task_plan
                  /\ state'.task_plan[i].status = "failed"
                  /\ state'.task_plan[i].result = state.task_plan[i].result]_vars

\* C27: when the routing LLM returns FINISH (and no replanning) while
\* completed < total, the supervisor's decision is not FINISH.
C27_FinishOverridden ==
    \A r \in RouterOutputs :
        (/\ pc = "supervisor"
         /\ RouterCalled(state, registry, NoPlannerCall)
         /\ r.kind = "decision"
         /\ r.next = "FINISH"
         /\ ~r.should_replan
         /\ completed_steps(state.task_plan) < Len(state.task_plan))
        => supervisor_node(state, registry, NoPlannerCall, r).next # "FINISH"

\* C28: when the supervisor's decision fails (the planning LLM cannot be
\* created, or the routing-LLM call yields no decision), the update the
\* supervisor returns has next = FINISH and metadata.error set.
C28_DecisionErrorRecorded ==
    pc = "supervisor" =>
        \A p \in IF PlannerCalled(state, registry) THEN PlannerOutputs ELSE {NoPlannerCall} :
            \A r \in IF RouterCalled(state, registry, p) THEN RouterOutputs ELSE {NoRouterCall} :
                (p.kind = "llm_unavailable" \/ r.kind = "no_decision") =>
                    LET update == supervisor_node(state, registry, p, r)
                    IN  /\ "next" \in DOMAIN update
                        /\ update.next = "FINISH"
                        /\ "metadata" \in DOMAIN update
                        /\ "error" \in DOMAIN update.metadata

\* C29: a supervisor entry with a single-step plan whose step is not
\* completed, and with a non-empty message authored by a registered worker,
\* decides FINISH without a call of the routing LLM; so no worker is
\* dispatched for a single-step plan after a worker has replied.
SingleStepAnswered(st) ==
    /\ Len(st.task_plan) = 1
    /\ completed_steps(st.task_plan) = 0
    /\ has_ai_response(st.messages, registry)
C29_SingleStepNotRepeated ==
    /\ [][(SupervisorStep /\ SingleStepAnswered(state))
          => /\ node_output'.next = "FINISH"
             /\ pc' = "end"
             /\ ~RouterCalled(state, registry, NoPlannerCall)]_vars
    /\ [](pc = "worker" => ~SingleStepAnswered(state))

\* a single-step request ended after its worker replied without marking the
\* step: the step is still pending and the worker ran once
C29_Witness ==
    /\ pc = "end"
    /\ FreshThread
    /\ SingleStepAnswered(state)
    /\ state.task_plan[1].status = "pending"
    /\ dispatched = <<state.task_plan[1].worker>>
    /\ node_output.next = "FINISH"
    /\ ~routing_llm

\* C30: in the DataTeam subgraph trials never exceeds 3 and execute_sql runs
\* at most 3 times in one invocation; after an execution that set error the
\* router goes to generate_sql exactly when trials < 3 and to give_up exactly
\* when trials >= 3; after an execution without error it goes to analyze_data.
Executions(trace) == Len(SelectSeq(trace, LAMBDA n : n = "execute_sql"))
Visits(trace, node) == Len(SelectSeq(trace, LAMBDA n : n = node))
C32_GiveUpMarksFailed ==
    [][(/\ sg_pc = "END"
        /\ sg_pc' = "idle"
        /\ Last(sg_trace) = "give_up")
       => /\ "task_plan" \in DOMAIN sg_result'
          /\ sg_result'.task_plan[sg_parent.current_step_index + 1].status = "failed"
          /\ sg_result'.task_plan[sg_parent.current_step_index + 1].error = sg_state.error]_vars

\* C33: a successful execution of the subgraph worker returns an update with
\* an assistant message authored by the worker and current_worker set, marks
\* task_plan[current_step_index] completed, raises current_step_index by 1,
\* and leaves the other steps of the plan and the state the caller holds as
\* they were.
C33_SuccessFrame ==
    [][(/\ sg_pc = "END"
        /\ sg_pc' = "idle"
        /\ Last(sg_trace) = "analyze_data")
       => LET current == sg_parent.current_step_index + 1 IN
          /\ sg_result'.messages # <<>>
          /\ \A i \in DOMAIN sg_result'.messages :
                sg_result'.messages[i].type = "ai" /\ sg_result'.messages[i].name = "DataTeam"
          /\ sg_result'.current_worker = "DataTeam"
          /\ sg_result'.task_plan[current].status = "completed"
          /\ sg_result'.current_step_index = sg_parent.current_step_index + 1
          /\ \A i \in DOMAIN sg_parent.task_plan :
                i # current => sg_result'.task_plan[i] = sg_parent.task_plan[i]
          /\ sg_parent' = sg_parent]_vars

\* C34: the stored next is a registered worker name, FINISH or the empty
\* string, and it is empty only before the first supervisor decision of the
\* request.
C34_NextInRange ==
    /\ state.next \in registry \cup {"FINISH", ""}
    /\ state.next = "" => state.iteration_count = 0

\* C35: the tools-supported bit of a General worker instance only goes from
\* true to false, it is cleared only by an attempt rejected as unsupported, and
\* an execute that starts on an instance whose bit is false answers on the
\* fallback path without an attempt with tools.
C35_ToolsBitOneWay ==
    /\ [][\A i \in 1..MaxInstances :
             /\ ~gw_bits[i] => ~gw_bits'[i]
             /\ (gw_bits[i] /\ ~gw_bits'[i]) =>
                   /\ Len(gw_history') = Len(gw_history) + 1
                   /\ Last(gw_history').instance = i
                   /\ Last(gw_history').path = "fallback_after_rejection"]_vars
    /\ [][\A c \in Callers :
             (gw_pc[c] = "idle" /\ ~gw_bits[gw_current]) =>
                 /\ gw_pc'[c] = "idle"
                 /\ (Len(gw_history') > Len(gw_history) /\ Last(gw_history').caller = c)
                       => Last(gw_history').path = "fallback"]_vars

\* the first instance's bit was cleared by one request's rejected attempt, and
\* a later execute of the other request on that instance took the fallback path
C35_Witness ==
    /\ ~gw_bits[1]
    /\ Len(gw_history) >= 2
    /\ gw_history[1].instance = 1
    /\ gw_history[1].path = "fallback_after_rejection"
    /\ gw_history[2].instance = 1
    /\ gw_history[2].path = "fallback"
    /\ gw_history[2].caller # gw_history[1].caller

\* C36: when the routing LLM sets should_replan the supervisor's update empties
\* the plan and resets nothing else (iteration_count goes on counting,
\* thinking_steps keeps its steps), and the supervisor entry that follows in
\* the run runs the plan phase and stores a new plan with current_step_index = 0.
ReplanStep == SupervisorStep /\ "next" \notin DOMAIN node_output'
AfterReplan(st) == st.task_plan = <<>> /\ st.iteration_count > 0
ReplanClearsPlanOnly ==
    /\ state'.task_plan = <<>>
    /\ state'.iteration_count = state.iteration_count + 1
    /\ Len(state'.thinking_steps) > Len(state.thinking_steps)
    /\ SubSeq(state'.thinking_steps, 1, Len(state.thinking_steps)) = state.thinking_steps
    /\ Last(state'.thinking_steps) = "decision"
    /\ state'.messages = state.messages
    /\ state'.next = state.next
    /\ state.task_plan # <<>> => state'.current_step_index = state.current_step_index
PlanProgress(plan) ==
    IF Len(plan) > 1
    THEN <<[current |-> completed_steps(plan), total |-> Len(plan)]>>
    ELSE <<>>
ContentOf(e) == IF "content" \in DOMAIN e THEN e.content ELSE ""
ProgressOf(e) == IF "progress" \in DOMAIN e THEN <<e.progress>> ELSE <<>>
UpdateStreamed == mode = "stream" /\ pc \in {"supervisor", "worker"} /\ pc' # "done"
Emitted == SubSeq(events', Len(events) + 1, Len(events'))
C38_OneRegistrationWins ==
    /\ [](\A n \in RegisterNames :
             Cardinality({k \in DOMAIN rt_stores :
                             rt_stores[k].name = n /\ ~rt_stores[k].replace}) <= 1)
    /\ [][\A n \in RegisterNames :
             (rt_workers[n] # 0 /\ rt_workers'[n] # rt_workers[n]) =>
                 Last(rt_stores').replace]_vars

\* C39: while a request runs through the graph, original_query is the user
\* message of that request.
C39_OriginalQueryOfRequest ==
    pc \in {"supervisor", "worker", "end"} => state.original_query = user_message

\* C40: the content of a worker's error response is never stored in the
\* semantic cache: no cached answer is a failure message, and a streamed run
\* whose last message-bearing update was a failure message stores no entry.
FailureContents == {FailureContent(ErrorOf(w)) : w \in WorkerNames}
C40_FailureNotCached ==
    /\ [](\A q \in DOMAIN cache : cache[q] \notin FailureContents)
    /\ [][(pc = "end" /\ pc' = "done" /\ mode = "stream" /\ final_answer \in FailureContents)
             => cache' = cache]_vars

====
